---- MODULE Spec2Model ----
(***************************************************************************)
(* AI Personal Budget Optimizer: the BudgetOptimizer component (onSubmit   *)
(* and its three pieces of React state), the recommendation server action  *)
(* getAIBudgetRecommendations and the helpers of lib/groq-prompts.         *)
(*                                                                         *)
(* The repository holds two versions of the BudgetOptimizer component:     *)
(* src/components/budget-optimizer.tsx and src/unnamed/part_000.  The      *)
(* variable `variant` says which of the two is mounted.                    *)
(*                                                                         *)
(* JavaScript numbers are modelled as exact rationals [n, d] in lowest     *)
(* terms, and every arithmetic expression is evaluated in the order the    *)
(* code evaluates it; floating-point rounding is not modelled.             *)
(***************************************************************************)
EXTENDS Integers, Sequences, FiniteSets, TLC

(***************************************************************************)
(* Bounds of the model.                                                    *)
(***************************************************************************)
MaxExpenses == 2
MaxGoals == 2
MaxInFlight == 2
MaxTokens == 4

(***************************************************************************)
(* Numbers.                                                                *)
(***************************************************************************)
Abs(i) == IF i < 0 THEN -i ELSE i

RECURSIVE GCD(_, _)
GCD(a, b) == IF b = 0 THEN a ELSE GCD(b, a % b)

Rat(n, d) ==
  LET g == GCD(Abs(n), Abs(d))
      s == IF d < 0 THEN -1 ELSE 1
  IN  [n |-> (s * n) \div g, d |-> (s * d) \div g]

Num(i) == [n |-> i, d |-> 1]
Zero == Num(0)
Add(x, y) == Rat(x.n * y.d + y.n * x.d, x.d * y.d)
Sub(x, y) == Rat(x.n * y.d - y.n * x.d, x.d * y.d)
Mul(x, y) == Rat(x.n * y.n, x.d * y.d)
Div(x, y) == Rat(x.n * y.d, x.d * y.n)
Lt(x, y) == x.n * y.d < y.n * x.d
Gt(x, y) == Lt(y, x)

OneFifth_Wrong == Rat(3, 10)

\* The decimal literals 0.2 and 0.8 of createFallbackRecommendation.
OneFifth == Rat(1, 5)
FourFifths == Rat(4, 5)

\* Number.prototype.toFixed(k): the number rounded to k decimals (half away
\* from zero), kept as the count of units of 10^-k that the string shows.
RECURSIVE Pow10(_)
Pow10(k) == IF k = 0 THEN 1 ELSE 10 * Pow10(k - 1)

toFixed(x, k) ==
  LET scaled == Abs(x.n) * Pow10(k)
      q == (2 * scaled + x.d) \div (2 * x.d)
  IN  [digits |-> k, units |-> IF x.n < 0 THEN -q ELSE q]

(***************************************************************************)
(* The form: values accepted by formSchema.                                *)
(***************************************************************************)
NULL == [null |-> TRUE]

Incomes == {30}
ExpenseAmounts == {12, 18}
GoalPercents == {0, 60}
ExpenseCategories == <<"Rent", "Utilities", "Internet", "Phone">>
GoalCategories == <<"Emergency Fund", "Retirement", "Entertainment">>

SeqsUpTo(S, k) == UNION {[1..m -> S] : m \in 0..k}

ExpenseLists ==
  {[i \in DOMAIN am |-> [category |-> ExpenseCategories[i], amount |-> Num(am[i])]]
     : am \in SeqsUpTo(ExpenseAmounts, MaxExpenses)}

GoalLists ==
  {[i \in DOMAIN tp |-> [category |-> GoalCategories[i], target_percent |-> Num(tp[i])]]
     : tp \in SeqsUpTo(GoalPercents, MaxGoals)}

\* defaultValues of the form in part_000 (the spec's scenario A).
defaultValues ==
  [income |-> Num(5000),
   fixedExpenses |-> <<[category |-> "Rent", amount |-> Num(1200)],
                       [category |-> "Utilities", amount |-> Num(200)],
                       [category |-> "Internet", amount |-> Num(80)],
                       [category |-> "Phone", amount |-> Num(50)]>>,
   goals |-> <<[category |-> "Emergency Fund", target_percent |-> Num(15)],
               [category |-> "Retirement", target_percent |-> Num(10)],
               [category |-> "Entertainment", target_percent |-> Num(8)]>>]

FormValues ==
  {[income |-> Num(i), fixedExpenses |-> e, goals |-> g]
     : i \in Incomes, e \in ExpenseLists, g \in GoalLists}
  \cup {defaultValues}

(***************************************************************************)
(* onSubmit, synchronous part: the allocation.                             *)
(***************************************************************************)
SumAmounts_LastOnly(items) ==
  IF items = <<>> THEN Zero ELSE items[Len(items)].amount

\* data.fixedExpenses.reduce((sum, expense) => sum + expense.amount, 0)
RECURSIVE SumAmounts(_)
SumAmounts(items) ==
  IF items = <<>> THEN Zero
  ELSE Add(SumAmounts(SubSeq(items, 1, Len(items) - 1)), items[Len(items)].amount)

GoalAllocation_PercentAsFraction(goal, income) ==
  [category |-> goal.category,
   amount |-> Mul(Div(goal.target_percent, Num(100)), income),
   percent |-> Div(goal.target_percent, Num(100))]

\* one iteration of data.goals.forEach: the entry pushed to goalAllocations
GoalAllocation(goal, income) ==
  [category |-> goal.category,
   amount |-> Mul(Div(goal.target_percent, Num(100)), income),
   percent |-> goal.target_percent]

goalAllocationsOf_SkipsZero(data) ==
  SelectSeq([i \in DOMAIN data.goals |-> GoalAllocation(data.goals[i], data.income)],
            LAMBDA a : a.amount # Zero)

\* goalAllocations after data.goals.forEach: one entry per goal, in order
goalAllocationsOf(data) ==
  [i \in DOMAIN data.goals |-> GoalAllocation(data.goals[i], data.income)]

RECURSIVE SumPercents_Capped(_)
SumPercents_Capped(goals) ==
  IF goals = <<>> THEN Zero
  ELSE LET total == Add(SumPercents_Capped(SubSeq(goals, 1, Len(goals) - 1)),
                        goals[Len(goals)].target_percent)
       IN  IF Gt(total, Num(100)) THEN Num(100) ELSE total

\* totalGoalPercent += goal.target_percent, over the goals in order
RECURSIVE SumPercents(_)
SumPercents(goals) ==
  IF goals = <<>> THEN Zero
  ELSE Add(SumPercents(SubSeq(goals, 1, Len(goals) - 1)), goals[Len(goals)].target_percent)

ExpensesExceedIncome_Inclusive(remainingIncome) == ~Gt(remainingIncome, Zero)

\* if (remainingIncome < 0)
ExpensesExceedIncome(remainingIncome) == Lt(remainingIncome, Zero)

GoalsExceedRemaining_Reversed(totalGoalAmount, remainingIncome) ==
  Gt(remainingIncome, totalGoalAmount)

GoalsExceedRemaining_Unchecked(totalGoalAmount, remainingIncome) == FALSE

\* if (totalGoalAmount > remainingIncome)
GoalsExceedRemaining(totalGoalAmount, remainingIncome) ==
  Gt(totalGoalAmount, remainingIncome)

DiscretionaryAmount_IgnoresGoals(remainingIncome, totalGoalAmount) == remainingIncome

\* const discretionaryAmount = remainingIncome - totalGoalAmount
DiscretionaryAmount(remainingIncome, totalGoalAmount) ==
  Sub(remainingIncome, totalGoalAmount)

ExpensesExceedIncomeResult_Unclamped(data, totalFixedExpenses) ==
  [success |-> FALSE,
   message |-> "Your fixed expenses exceed your income. Please adjust your expenses or increase your income.",
   income |-> data.income,
   totalFixedExpenses |-> totalFixedExpenses,
   remainingIncome |-> Sub(data.income, totalFixedExpenses),
   allocations |-> <<>>,
   fixedExpenses |-> data.fixedExpenses]

ExpensesExceedIncomeResult(data, totalFixedExpenses) ==
  [success |-> FALSE,
   message |-> "Your fixed expenses exceed your income. Please adjust your expenses or increase your income.",
   income |-> data.income,
   totalFixedExpenses |-> totalFixedExpenses,
   remainingIncome |-> Zero,
   allocations |-> <<>>,
   fixedExpenses |-> data.fixedExpenses]

GoalsExceedRemainingResult(data, totalFixedExpenses, remainingIncome, goalAllocations, totalGoalAmount, totalGoalPercent) ==
  [success |-> FALSE,
   message |-> "Your financial goals cannot be met with your current income and fixed expenses.",
   income |-> data.income,
   totalFixedExpenses |-> totalFixedExpenses,
   remainingIncome |-> remainingIncome,
   allocations |-> <<>>,
   fixedExpenses |-> data.fixedExpenses,
   goalAllocations |-> goalAllocations,
   totalGoalAmount |-> totalGoalAmount,
   totalGoalPercent |-> totalGoalPercent]

FeasibleResult(data, totalFixedExpenses, remainingIncome, goalAllocations, totalGoalAmount, totalGoalPercent) ==
  LET discretionaryAmount == DiscretionaryAmount(remainingIncome, totalGoalAmount)
      discretionaryPercent == Mul(Div(discretionaryAmount, data.income), Num(100))
      allocations == Append(goalAllocations,
                            [category |-> "Discretionary Spending",
                             amount |-> discretionaryAmount,
                             percent |-> discretionaryPercent])
  IN  [success |-> TRUE,
       message |-> "Here's your optimized budget plan:",
       income |-> data.income,
       totalFixedExpenses |-> totalFixedExpenses,
       remainingIncome |-> remainingIncome,
       allocations |-> allocations,
       fixedExpenses |-> data.fixedExpenses,
       totalGoalAmount |-> totalGoalAmount,
       totalGoalPercent |-> totalGoalPercent,
       discretionaryAmount |-> discretionaryAmount,
       discretionaryPercent |-> discretionaryPercent]

\* The value onSubmit passes to setBudgetResults for `data`.
Allocate(data) ==
  LET totalFixedExpenses == SumAmounts(data.fixedExpenses)
      remainingIncome == Sub(data.income, totalFixedExpenses)
      goalAllocations == goalAllocationsOf(data)
      totalGoalPercent == SumPercents(data.goals)
      totalGoalAmount == SumAmounts(goalAllocations)
  IN  IF ExpensesExceedIncome(remainingIncome)
        THEN ExpensesExceedIncomeResult(data, totalFixedExpenses)
      ELSE IF GoalsExceedRemaining(totalGoalAmount, remainingIncome)
        THEN GoalsExceedRemainingResult(data, totalFixedExpenses, remainingIncome,
                                        goalAllocations, totalGoalAmount, totalGoalPercent)
      ELSE FeasibleResult(data, totalFixedExpenses, remainingIncome,
                          goalAllocations, totalGoalAmount, totalGoalPercent)

\* The BudgetData object onSubmit builds for the recommendation call.
BudgetDataOf(data) ==
  [income |-> data.income,
   fixedExpenses |-> data.fixedExpenses,
   goals |-> data.goals,
   remainingIncome |-> Sub(data.income, SumAmounts(data.fixedExpenses)),
   totalFixedExpenses |-> SumAmounts(data.fixedExpenses)]

(***************************************************************************)
(* JavaScript values: what JSON.parse yields and what the recommendation   *)
(* service returns.  A string is a format with the values interpolated     *)
(* into it; a number is a rational or NaN.                                 *)
(***************************************************************************)
Undefined == [type |-> "undefined"]
JNull == [type |-> "null"]
Str(s) == [type |-> "string", str |-> s, args |-> <<>>]
Template(s, a) == [type |-> "string", str |-> s, args |-> a]
NumV(r) == [type |-> "number", nan |-> FALSE, num |-> r]
NaN == [type |-> "number", nan |-> TRUE, num |-> Zero]
Arr(items) == [type |-> "array", items |-> items]
Obj(m) == [type |-> "object", members |-> m]

\* obj.name
Member(v, name) ==
  IF v.type = "object" /\ name \in DOMAIN v.members THEN v.members[name] ELSE Undefined

Truthy_Defined(v) == v.type \notin {"undefined", "null"}

\* ToBoolean, as used by `||` and `&&`
Truthy(v) ==
  CASE v.type = "undefined" -> FALSE
    [] v.type = "null" -> FALSE
    [] v.type = "string" -> ~(v.str = "" /\ v.args = <<>>)
    [] v.type = "number" -> ~v.nan /\ v.num # Zero
    [] OTHER -> TRUE

\* Array.isArray(v)
IsArray(v) == v.type = "array"

\* typeof v === "object"
TypeofObject(v) == v.type \in {"object", "array", "null"}

\* String(v), for the scalar values a plan entry's member can hold
StringOf(v) ==
  CASE v.type = "string" -> v
    [] v.type = "number" -> IF v.nan THEN Str("NaN") ELSE Template("%", <<v.num>>)
    [] v.type = "null" -> Str("null")
    [] v.type = "undefined" -> Str("undefined")

\* Number(v) for a string: the numerals that occur in the modelled responses
NumberOfString(s) ==
  CASE s = "" -> NumV(Zero)
    [] s = "600" -> NumV(Num(600))
    [] s = "12.5" -> NumV(Rat(25, 2))
    [] OTHER -> NaN

\* Number(v), for the scalar values a plan entry's member can hold
NumberOf(v) ==
  CASE v.type = "number" -> v
    [] v.type = "string" -> IF v.args = <<>> THEN NumberOfString(v.str) ELSE NaN
    [] v.type = "null" -> NumV(Zero)
    [] v.type = "undefined" -> NaN

(***************************************************************************)
(* Response text: a sequence of characters.                                *)
(***************************************************************************)
Whitespace == {" ", "\n"}
\* the backtick character (the lexer of TLA+ does not take it in a string)
Backtick == "BACKTICK"

RECURSIVE SkipWhitespace(_)
SkipWhitespace(s) ==
  IF s # <<>> /\ Head(s) \in Whitespace THEN SkipWhitespace(Tail(s)) ELSE s

RECURSIVE DropTrailingWhitespace(_)
DropTrailingWhitespace(s) ==
  IF s # <<>> /\ s[Len(s)] \in Whitespace
    THEN DropTrailingWhitespace(SubSeq(s, 1, Len(s) - 1))
    ELSE s

\* String.prototype.trim
trim(s) == DropTrailingWhitespace(SkipWhitespace(s))

StartsWithFence(s) ==
  Len(s) >= 3 /\ s[1] = Backtick /\ s[2] = Backtick /\ s[3] = Backtick

StartsWithFenceJson(s) ==
  /\ Len(s) >= 7
  /\ StartsWithFence(s)
  /\ s[4] \in {"j", "J"}
  /\ s[5] \in {"s", "S"}
  /\ s[6] \in {"o", "O"}
  /\ s[7] \in {"n", "N"}

\* cleaned.replace(/```json\s*/gi, "")
RECURSIVE RemoveFenceJson(_)
RemoveFenceJson(s) ==
  IF s = <<>> THEN <<>>
  ELSE IF StartsWithFenceJson(s)
    THEN RemoveFenceJson(SkipWhitespace(SubSeq(s, 8, Len(s))))
  ELSE <<Head(s)>> \o RemoveFenceJson(Tail(s))

RECURSIVE RemoveFence_Once(_)
RemoveFence_Once(s) ==
  IF s = <<>> THEN <<>>
  ELSE IF StartsWithFence(s)
    THEN SkipWhitespace(SubSeq(s, 4, Len(s)))
  ELSE <<Head(s)>> \o RemoveFence_Once(Tail(s))

\* cleaned.replace(/```\s*/g, "")
RECURSIVE RemoveFence(_)
RemoveFence(s) ==
  IF s = <<>> THEN <<>>
  ELSE IF StartsWithFence(s)
    THEN RemoveFence(SkipWhitespace(SubSeq(s, 4, Len(s))))
  ELSE <<Head(s)>> \o RemoveFence(Tail(s))

\* String.prototype.indexOf / lastIndexOf for a one-character needle,
\* 0-based, -1 when absent
indexOf(s, ch) ==
  IF \E i \in 1..Len(s) : s[i] = ch
    THEN (CHOOSE i \in 1..Len(s) : s[i] = ch /\ \A j \in 1..(i - 1) : s[j] # ch) - 1
    ELSE -1

lastIndexOf_First(s, ch) == indexOf(s, ch)

lastIndexOf(s, ch) ==
  IF \E i \in 1..Len(s) : s[i] = ch
    THEN (CHOOSE i \in 1..Len(s) : s[i] = ch /\ \A j \in (i + 1)..Len(s) : s[j] # ch) - 1
    ELSE -1

cleanAndValidateJSON(response) ==
  LET trimmed == trim(response)
      unfenced == RemoveFence(RemoveFenceJson(trimmed))
      jsonStart == indexOf(unfenced, "{")
      fromStart == IF jsonStart > 0
                     THEN SubSeq(unfenced, jsonStart + 1, Len(unfenced))
                     ELSE unfenced
      jsonEnd == lastIndexOf(fromStart, "}")
  IN  IF jsonEnd # -1 /\ jsonEnd < Len(fromStart) - 1
        THEN SubSeq(fromStart, 1, jsonEnd + 1)
        ELSE fromStart

(***************************************************************************)
(* JSON.parse.  Between the braces of an object one letter stands for the  *)
(* whole member list; ModelObjects gives the object each letter denotes.   *)
(***************************************************************************)
PlanEntry(category, amount, percent, reasoning) ==
  Obj([category |-> category, amount |-> amount, percent |-> percent, reasoning |-> reasoning])

ModelObjects ==
  [A |-> Obj([budgetPlan |-> Arr(<<PlanEntry(Str("Savings"), NumV(Num(600)), NumV(Num(20)),
                                            Str("Emergency fund and long-term goals")),
                                   PlanEntry(Str("Leisure"), NumV(Rat(25, 2)), NumV(Rat(1, 2)),
                                            Str("Keep some fun money"))>>),
              insights |-> Arr(<<Str("Your fixed expenses are within recommended limits")>>),
              warnings |-> Arr(<<Str("No major warnings detected")>>),
              summary |-> Str("Overall budget assessment")]),
   B |-> Obj([budgetPlan |-> Arr(<<PlanEntry(Undefined, Str("600"), Str("twenty"), JNull),
                                   PlanEntry(Str(""), JNull, Undefined, Str("")),
                                   Obj([category |-> NumV(Num(7)), amount |-> Str("12.5")])>>),
              insights |-> Arr(<<>>),
              warnings |-> Arr(<<>>),
              summary |-> Str("")]),
   D |-> Obj([budgetPlan |-> Arr(<<JNull>>),
              insights |-> Arr(<<>>),
              warnings |-> Arr(<<>>),
              summary |-> Str("a null plan entry")]),
   E |-> Obj([budgetPlan |-> Arr(<<>>),
              insights |-> Arr(<<>>),
              warnings |-> Arr(<<>>)])]

MemberListLetters == {"A", "B", "D", "E"}

RECURSIVE RemoveWhitespace(_)
RemoveWhitespace(s) ==
  IF s = <<>> THEN <<>>
  ELSE IF Head(s) \in Whitespace THEN RemoveWhitespace(Tail(s))
  ELSE <<Head(s)>> \o RemoveWhitespace(Tail(s))

SyntaxErrorMessage == "Unexpected token in JSON"

\* JSON.parse(text): [ok |-> TRUE, value |-> v] or a thrown SyntaxError
JSONparse(text) ==
  LET t == RemoveWhitespace(text)
  IN  CASE t = <<"n", "u", "l", "l">> -> [ok |-> TRUE, value |-> JNull]
        [] t = <<"7">> -> [ok |-> TRUE, value |-> NumV(Num(7))]
        [] t = <<"[", "]">> -> [ok |-> TRUE, value |-> Arr(<<>>)]
        [] t = <<"{", "}">> -> [ok |-> TRUE, value |-> Obj(<<>>)]
        [] Len(t) = 3 /\ t[1] = "{" /\ t[3] = "}" /\ t[2] \in MemberListLetters
             -> [ok |-> TRUE, value |-> ModelObjects[t[2]]]
        [] OTHER -> [ok |-> FALSE, message |-> SyntaxErrorMessage]

(***************************************************************************)
(* lib/groq-prompts: validation, fallback synthesis, the analysis prompt.  *)
(***************************************************************************)
validateAIRecommendation(obj) ==
  /\ Truthy(obj)
  /\ TypeofObject(obj)
  /\ IsArray(Member(obj, "budgetPlan"))
  /\ IsArray(Member(obj, "insights"))
  /\ IsArray(Member(obj, "warnings"))
  /\ Member(obj, "summary").type = "string"

FallbackPlanned_NonNegative(remainingIncome) == ~Lt(remainingIncome, Zero)

\* budgetPlan: remainingIncome > 0 ? [...] : []
FallbackPlanned(remainingIncome) == Gt(remainingIncome, Zero)

IsDeficit_NonPositive(remainingIncome) == ~Gt(remainingIncome, Zero)

\* remainingIncome < 0, for the insufficiency warning and for the summary
IsDeficit(remainingIncome) == Lt(remainingIncome, Zero)

FallbackRemainingIncome_FromCaller(budgetData) == budgetData.remainingIncome

\* totalFixedExpenses by reduce, then income - totalFixedExpenses: the
\* optional fields of budgetData are not read
FallbackRemainingIncome(budgetData) ==
  Sub(budgetData.income, SumAmounts(budgetData.fixedExpenses))

\* `error` is a string value or Undefined (the optional parameter)
createFallbackRecommendation(budgetData, error) ==
  LET remainingIncome == FallbackRemainingIncome(budgetData)
  IN  Obj([budgetPlan |->
             Arr(IF FallbackPlanned(remainingIncome)
                   THEN <<PlanEntry(Str("Emergency Savings"),
                                    NumV(Mul(remainingIncome, OneFifth)),
                                    NumV(Mul(Div(Mul(remainingIncome, OneFifth), budgetData.income),
                                             Num(100))),
                                    Str("Build emergency fund first")),
                          PlanEntry(Str("Discretionary"),
                                    NumV(Mul(remainingIncome, FourFifths)),
                                    NumV(Mul(Div(Mul(remainingIncome, FourFifths), budgetData.income),
                                             Num(100))),
                                    Str("Flexible spending allocation"))>>
                   ELSE <<>>),
           insights |->
             Arr(<<Str("AI analysis temporarily unavailable"),
                   Template("Available after fixed expenses: $%", <<toFixed(remainingIncome, 2)>>),
                   IF Gt(remainingIncome, Zero)
                     THEN Str("Focus on building an emergency fund")
                     ELSE Str("Consider reducing expenses")>>),
           warnings |->
             Arr(<<IF Truthy(error) THEN error ELSE Str("AI service temporarily unavailable")>>
                 \o (IF IsDeficit(remainingIncome)
                       THEN <<Str("Income insufficient to cover fixed expenses")>>
                       ELSE <<>>)),
           summary |->
             IF IsDeficit(remainingIncome)
               THEN Str("Budget shows deficit - immediate action needed")
               ELSE Str("Basic budget allocation provided - AI analysis pending")])

createBudgetAnalysisPrompt_TotalsIncome(budgetData) ==
  LET totalFixedExpenses == SumAmounts(budgetData.fixedExpenses)
      remainingIncome == Sub(budgetData.income, totalFixedExpenses)
      fixedExpenseRatio == Mul(Div(totalFixedExpenses, budgetData.income), Num(100))
  IN  [monthlyIncome |-> budgetData.income,
       fixedExpenses |-> totalFixedExpenses,
       fixedExpensePercent |-> toFixed(fixedExpenseRatio, 1),
       availableForAllocation |-> remainingIncome,
       expenseLines |-> [i \in DOMAIN budgetData.fixedExpenses |->
                           <<budgetData.fixedExpenses[i].category,
                             budgetData.fixedExpenses[i].amount>>],
       goalLines |-> [i \in DOMAIN budgetData.goals |->
                        <<budgetData.goals[i].category, budgetData.goals[i].target_percent>>],
       allocationsMustTotal |-> budgetData.income,
       insightExamplePercent |-> toFixed(fixedExpenseRatio, 1),
       insightExampleLimits |-> IF Gt(fixedExpenseRatio, Num(50)) THEN "above" ELSE "within",
       warningExample |-> IF Lt(remainingIncome, Zero)
                            THEN "Your fixed expenses exceed your income"
                            ELSE "No major warnings detected"]

\* The prompt text, as the list of the values interpolated into the template.
createBudgetAnalysisPrompt(budgetData) ==
  LET totalFixedExpenses == SumAmounts(budgetData.fixedExpenses)
      remainingIncome == Sub(budgetData.income, totalFixedExpenses)
      fixedExpenseRatio == Mul(Div(totalFixedExpenses, budgetData.income), Num(100))
  IN  [monthlyIncome |-> budgetData.income,
       fixedExpenses |-> totalFixedExpenses,
       fixedExpensePercent |-> toFixed(fixedExpenseRatio, 1),
       availableForAllocation |-> remainingIncome,
       expenseLines |-> [i \in DOMAIN budgetData.fixedExpenses |->
                           <<budgetData.fixedExpenses[i].category,
                             budgetData.fixedExpenses[i].amount>>],
       goalLines |-> [i \in DOMAIN budgetData.goals |->
                        <<budgetData.goals[i].category, budgetData.goals[i].target_percent>>],
       allocationsMustTotal |-> remainingIncome,
       insightExamplePercent |-> toFixed(fixedExpenseRatio, 1),
       insightExampleLimits |-> IF Gt(fixedExpenseRatio, Num(50)) THEN "above" ELSE "within",
       warningExample |-> IF Lt(remainingIncome, Zero)
                            THEN "Your fixed expenses exceed your income"
                            ELSE "No major warnings detected"]

(***************************************************************************)
(* app/actions/budget-ai: getAIBudgetRecommendations.                      *)
(***************************************************************************)
\* one step of recommendation.budgetPlan.map(...); a null or undefined item
\* makes the property read throw a TypeError
ItemThrows(item) == item.type \in {"null", "undefined"}

TypeErrorMessage == "Cannot read properties of null (reading 'category')"

OrDefault_Keeps(v, default) == v

\* v || default
OrDefault(v, default) == IF Truthy(v) THEN v ELSE default

CoerceItem(item) ==
  PlanEntry(StringOf(OrDefault(Member(item, "category"), Str("Miscellaneous"))),
            OrDefault(NumberOf(Member(item, "amount")), NumV(Zero)),
            OrDefault(NumberOf(Member(item, "percent")), NumV(Zero)),
            StringOf(OrDefault(Member(item, "reasoning"), Str("Budget allocation"))))

\* What generateText can do: resolve with a text, or reject with a thrown
\* value (an Error with a message, or a value that is not an Error).
TextOutcome(text) == [kind |-> "text", text |-> text]
ErrorOutcome(message) == [kind |-> "error", message |-> message]
NonErrorOutcome == [kind |-> "thrown"]

CaughtMessage_Generic(thrown) == Str("Unknown error occurred")

\* error instanceof Error ? error.message : "Unknown error occurred"
CaughtMessage(thrown) ==
  IF thrown.kind = "error" THEN Str(thrown.message) ELSE Str("Unknown error occurred")

\* The value the try block of getAIBudgetRecommendations returns, or the
\* value it throws, once generateText has settled with `outcome`.
TryBlock(outcome) ==
  IF outcome.kind # "text" THEN [returned |-> FALSE, thrown |-> outcome]
  ELSE
    LET cleanedText == cleanAndValidateJSON(outcome.text)
        parsed == JSONparse(cleanedText)
    IN  IF ~parsed.ok
          THEN [returned |-> FALSE, thrown |-> ErrorOutcome(parsed.message)]
        ELSE IF ~validateAIRecommendation(parsed.value)
          THEN [returned |-> FALSE, thrown |-> ErrorOutcome("Invalid recommendation structure")]
        ELSE
          LET items == parsed.value.members.budgetPlan.items
          IN  IF \E i \in DOMAIN items : ItemThrows(items[i])
                THEN [returned |-> FALSE, thrown |-> ErrorOutcome(TypeErrorMessage)]
                ELSE [returned |-> TRUE,
                      value |-> Obj([parsed.value.members EXCEPT
                                       !.budgetPlan = Arr([i \in DOMAIN items |-> CoerceItem(items[i])])])]

\* How the promise of a call settles.
Fulfilled(value) == [fulfilled |-> TRUE, value |-> value]
Rejected(thrown) == [fulfilled |-> FALSE, reason |-> thrown]

CatchBlock_Rethrows(budgetData, thrown) == Rejected(thrown)

\* the catch block of getAIBudgetRecommendations
CatchBlock(budgetData, thrown) ==
  Fulfilled(createFallbackRecommendation(budgetData, CaughtMessage(thrown)))

\* How the promise of getAIBudgetRecommendations(budgetData) settles once
\* generateText has settled with `outcome`.
getAIBudgetRecommendations(budgetData, outcome) ==
  LET attempt == TryBlock(outcome)
  IN  IF attempt.returned
        THEN Fulfilled(attempt.value)
        ELSE CatchBlock(budgetData, attempt.thrown)

(***************************************************************************)
(* The texts and failures the external text-generation call is modelled    *)
(* to produce.                                                             *)
(***************************************************************************)
Fence == <<Backtick, Backtick, Backtick>>

Responses ==
  {<<"{", "A", "}">>,
   Fence \o <<"j", "s", "o", "n", "\n", "{", "A", "}", "\n">> \o Fence,
   <<"x", " ", "{", "B", "}", " ", "x">>,
   <<"{", "D", "}">>,
   <<"{", "E", "}">>,
   <<"n", "u", "l", "l">>,
   <<"{", "A">>}

ErrorMessages == {"Request timed out", ""}

Outcomes ==
  {TextOutcome(t) : t \in Responses}
  \cup {ErrorOutcome(m) : m \in ErrorMessages}
  \cup {NonErrorOutcome}

(***************************************************************************)
(* State.                                                                  *)
(***************************************************************************)
VARIABLES
  variant,            \* which version of the component is mounted
  budgetResults,      \* useState<any>(null)
  isLoading,          \* useState(false)
  aiRecommendation,   \* useState<AIRecommendation | null>(null)
  calls,              \* invocations of getAIBudgetRecommendations in flight
  submitted,          \* history: the data of the latest submission
  aiFrom,             \* history: the call whose completion set aiRecommendation
  invoked,            \* history: did the latest submission call the service
  resubmitted,        \* history: did the latest submission repeat the one before
  svc,                \* a direct invocation of the server action
  clean               \* a direct application of cleanAndValidateJSON

vars == <<variant, budgetResults, isLoading, aiRecommendation, calls, submitted, aiFrom, invoked, resubmitted, svc, clean>>

component == <<variant, budgetResults, isLoading, aiRecommendation, calls, submitted, aiFrom, invoked, resubmitted>>

Variants == {"part_000", "budget-optimizer.tsx"}

Init ==
  /\ variant \in Variants
  /\ budgetResults = NULL
  /\ isLoading = FALSE
  /\ aiRecommendation = NULL
  /\ calls = {}
  /\ submitted = NULL
  /\ aiFrom = NULL
  /\ invoked = FALSE
  /\ resubmitted = FALSE
  /\ svc = [phase |-> "idle"]
  /\ clean = [phase |-> "idle"]

InvokesService_Always(result) == TRUE

\* the `return` of the two infeasible paths comes before the call of
\* getAIBudgetRecommendations
InvokesService(result) == result.success

SubmitEnabled_Always == TRUE

SubmitEnabled_WhileGenerating == \A c \in calls : c.phase = "generating"

\* <Button type="submit" disabled={isLoading}>
SubmitEnabled == ~isLoading

\* A later submission supersedes the calls still in flight.
Superseded(cs) == {[c EXCEPT !.superseded = TRUE] : c \in cs}

\* getAIBudgetRecommendations(budgetData) up to its first await: the prompt
\* is built and handed to generateText.
NewCall(data) ==
  [data |-> data,
   budgetData |-> BudgetDataOf(data),
   prompt |-> createBudgetAnalysisPrompt(BudgetDataOf(data)),
   phase |-> "generating",
   externalCalls |-> 1,
   superseded |-> FALSE]

\* as onSubmit, without setAiRecommendation(null)
onSubmit_KeepsRecommendation(data) ==
  /\ SubmitEnabled
  /\ Cardinality(calls) < MaxInFlight
  /\ submitted' = data
  /\ budgetResults' = Allocate(data)
  /\ invoked' = InvokesService(budgetResults')
  /\ resubmitted' = (data = submitted)
  /\ IF invoked'
       THEN /\ isLoading' = TRUE
            /\ calls' = Superseded(calls) \cup {NewCall(data)}
       ELSE /\ isLoading' = FALSE
            /\ calls' = Superseded(calls)
  /\ UNCHANGED <<variant, aiRecommendation, aiFrom, svc, clean>>

\* as onSubmit, with the fixed-expense total kept across submissions that
\* ended on an infeasible path
onSubmit_SharedState(data) ==
  /\ SubmitEnabled
  /\ Cardinality(calls) < MaxInFlight
  /\ submitted' = data
  /\ aiRecommendation' = NULL
  /\ aiFrom' = NULL
  /\ budgetResults' = IF budgetResults # NULL /\ ~budgetResults.success
                         THEN [Allocate(data) EXCEPT
                                 !.totalFixedExpenses = Add(@, budgetResults.totalFixedExpenses)]
                         ELSE Allocate(data)
  /\ invoked' = InvokesService(budgetResults')
  /\ resubmitted' = (data = submitted)
  /\ IF invoked'
       THEN /\ isLoading' = TRUE
            /\ calls' = Superseded(calls) \cup {NewCall(data)}
       ELSE /\ isLoading' = FALSE
            /\ calls' = Superseded(calls)
  /\ UNCHANGED <<variant, svc, clean>>

\* onSubmit(data), from its first statement to the return of an infeasible
\* path or to the await of the recommendation call.
onSubmit(data) ==
  /\ SubmitEnabled
  /\ Cardinality(calls) < MaxInFlight
  /\ submitted' = data
  /\ aiRecommendation' = NULL
  /\ aiFrom' = NULL
  /\ budgetResults' = Allocate(data)
  /\ invoked' = InvokesService(budgetResults')
  /\ resubmitted' = (data = submitted)
  /\ IF invoked'
       THEN /\ isLoading' = TRUE
            /\ calls' = Superseded(calls) \cup {NewCall(data)}
       ELSE /\ isLoading' = FALSE
            /\ calls' = Superseded(calls)
  /\ UNCHANGED <<variant, svc, clean>>

\* generateText settles (resolves with a text or rejects) and the server
\* action runs to its return.
generateTextSettles(c, outcome) ==
  /\ c \in calls
  /\ c.phase = "generating"
  /\ calls' = (calls \ {c}) \cup
                {[data |-> c.data,
                  budgetData |-> c.budgetData,
                  prompt |-> c.prompt,
                  phase |-> "settled",
                  externalCalls |-> c.externalCalls,
                  superseded |-> c.superseded,
                  outcome |-> outcome,
                  settlement |-> getAIBudgetRecommendations(c.budgetData, outcome)]}
  /\ UNCHANGED <<variant, budgetResults, isLoading, aiRecommendation, submitted, aiFrom, invoked, resubmitted, svc, clean>>

\* the await of onSubmit resumes with the value of the server action
awaitFulfilled(c) ==
  /\ c \in calls
  /\ c.phase = "settled"
  /\ c.settlement.fulfilled
  /\ aiRecommendation' = c.settlement.value
  /\ aiFrom' = c
  /\ isLoading' = FALSE
  /\ calls' = calls \ {c}
  /\ UNCHANGED <<variant, budgetResults, submitted, invoked, resubmitted, svc, clean>>

\* the recommendation set by the catch block of part_000
ClientFallback ==
  Obj([budgetPlan |-> Arr(<<>>),
       insights |-> Arr(<<Str("AI analysis is temporarily unavailable. Please try again later.")>>),
       warnings |-> Arr(<<Str("Unable to connect to AI service")>>),
       summary |-> Str("Basic budget calculation completed successfully.")])

\* as awaitRejected, with the error also handled as a failed calculation
awaitRejected_ResetsResults(c) ==
  /\ c \in calls
  /\ IF variant = "part_000"
       THEN aiRecommendation' = ClientFallback /\ aiFrom' = c
       ELSE UNCHANGED <<aiRecommendation, aiFrom>>
  /\ budgetResults' = [success |-> FALSE,
                       message |-> "An error occurred while calculating your budget. Please try again.",
                       income |-> c.data.income,
                       totalFixedExpenses |-> Zero,
                       remainingIncome |-> Zero,
                       allocations |-> <<>>,
                       fixedExpenses |-> c.data.fixedExpenses]
  /\ isLoading' = FALSE
  /\ calls' = calls \ {c}
  /\ UNCHANGED <<variant, submitted, invoked, resubmitted, svc, clean>>

\* as awaitRejected, without the finally block
awaitRejected_KeepsLoading(c) ==
  /\ c \in calls
  /\ IF variant = "part_000"
       THEN aiRecommendation' = ClientFallback /\ aiFrom' = c
       ELSE UNCHANGED <<aiRecommendation, aiFrom>>
  /\ calls' = calls \ {c}
  /\ UNCHANGED <<variant, budgetResults, isLoading, submitted, invoked, resubmitted, svc, clean>>

\* the await of onSubmit throws: the promise of the server action rejected,
\* or the request failed on the client side (the server's answer, if any,
\* is lost)
awaitRejected(c) ==
  /\ c \in calls
  /\ IF variant = "part_000"
       THEN aiRecommendation' = ClientFallback /\ aiFrom' = c
       ELSE UNCHANGED <<aiRecommendation, aiFrom>>
  /\ isLoading' = FALSE
  /\ calls' = calls \ {c}
  /\ UNCHANGED <<variant, budgetResults, submitted, invoked, resubmitted, svc, clean>>

Next ==
  \/ \E data \in FormValues : onSubmit(data)
  \/ \E c \in calls, outcome \in Outcomes : generateTextSettles(c, outcome)
  \/ \E c \in calls : awaitFulfilled(c)
  \/ \E c \in calls : awaitRejected(c)

Spec == Init /\ [][Next]_vars

\* The promise onSubmit awaits is settled in the end (the server action
\* returns, or the request fails), and the event loop then runs the
\* continuation of the await.
AwaitCompletes ==
  \E c \in calls : awaitFulfilled(c) \/ awaitRejected(c)

LiveSpec == Init /\ [][Next]_vars /\ WF_vars(AwaitCompletes)

(***************************************************************************)
(* The server action on its own: getAIBudgetRecommendations is an exported *)
(* "use server" function, invoked here with every BudgetData of the form,  *)
(* whatever the allocation says about it.                                  *)
(***************************************************************************)
\* what a caller can put in the two optional fields of BudgetData other
\* than the figures onSubmit computes
OptionalFieldsChanged(budgetData) ==
  [budgetData EXCEPT !.remainingIncome = Num(1000), !.totalFixedExpenses = Zero]

ServiceInputs ==
  {BudgetDataOf(data) : data \in FormValues}
  \cup {OptionalFieldsChanged(BudgetDataOf(data)) : data \in FormValues}

SvcInit ==
  /\ variant \in Variants
  /\ budgetResults = NULL
  /\ isLoading = FALSE
  /\ aiRecommendation = NULL
  /\ calls = {}
  /\ submitted = NULL
  /\ aiFrom = NULL
  /\ invoked = FALSE
  /\ resubmitted = FALSE
  /\ svc = [phase |-> "idle"]
  /\ clean = [phase |-> "idle"]

\* the call, up to the await of generateText
SvcInvoke(budgetData) ==
  /\ svc.phase = "idle"
  /\ svc' = [phase |-> "generating",
             budgetData |-> budgetData,
             prompt |-> createBudgetAnalysisPrompt(budgetData),
             externalCalls |-> 1]
  /\ UNCHANGED <<component, clean>>

\* as SvcSettles, with one more attempt after a failed generateText
SvcSettles_Retries(outcome) ==
  /\ svc.phase = "generating"
  /\ IF outcome.kind # "text" /\ svc.externalCalls < 2
       THEN svc' = [svc EXCEPT !.externalCalls = @ + 1]
       ELSE svc' = [phase |-> "settled",
                    budgetData |-> svc.budgetData,
                    prompt |-> svc.prompt,
                    externalCalls |-> svc.externalCalls,
                    outcome |-> outcome,
                    settlement |-> getAIBudgetRecommendations(svc.budgetData, outcome)]
  /\ UNCHANGED <<component, clean>>

\* generateText settles and the function runs to its return
SvcSettles(outcome) ==
  /\ svc.phase = "generating"
  /\ svc' = [phase |-> "settled",
             budgetData |-> svc.budgetData,
             prompt |-> svc.prompt,
             externalCalls |-> svc.externalCalls,
             outcome |-> outcome,
             settlement |-> getAIBudgetRecommendations(svc.budgetData, outcome)]
  /\ UNCHANGED <<component, clean>>

SvcNext ==
  \/ \E budgetData \in ServiceInputs : SvcInvoke(budgetData)
  \/ \E outcome \in Outcomes : SvcSettles(outcome)

SvcSpec == SvcInit /\ [][SvcNext]_vars

(***************************************************************************)
(* cleanAndValidateJSON on its own: an exported function, applied here to  *)
(* every text made of up to MaxTokens pieces of fences, braces, blanks and *)
(* other characters.                                                       *)
(***************************************************************************)
CleanTokens ==
  {<<Backtick>>, Fence, Fence \o <<"j", "s", "o", "n">>, <<"{">>, <<"}">>, <<" ">>, <<"x">>}

RECURSIVE Flatten(_)
Flatten(pieces) ==
  IF pieces = <<>> THEN <<>> ELSE Head(pieces) \o Flatten(Tail(pieces))

CleanInputs == {Flatten(pieces) : pieces \in SeqsUpTo(CleanTokens, MaxTokens)}

CleanInit ==
  /\ variant \in Variants
  /\ budgetResults = NULL
  /\ isLoading = FALSE
  /\ aiRecommendation = NULL
  /\ calls = {}
  /\ submitted = NULL
  /\ aiFrom = NULL
  /\ invoked = FALSE
  /\ resubmitted = FALSE
  /\ svc = [phase |-> "idle"]
  /\ clean \in {[phase |-> "called", response |-> t] : t \in CleanInputs}

\* the call of cleanAndValidateJSON(response), to its return
CleanReturns ==
  /\ clean.phase = "called"
  /\ clean' = [phase |-> "returned",
               response |-> clean.response,
               cleaned |-> cleanAndValidateJSON(clean.response)]
  /\ UNCHANGED <<component, svc>>

\* cleanAndValidateJSON applied to the text it has returned
CleanAgain ==
  /\ clean.phase = "returned"
  /\ clean' = [phase |-> "recleaned",
               response |-> clean.response,
               cleaned |-> clean.cleaned,
               again |-> cleanAndValidateJSON(clean.cleaned)]
  /\ UNCHANGED <<component, svc>>

CleanNext == CleanReturns \/ CleanAgain

CleanSpec == CleanInit /\ [][CleanNext]_vars

(***************************************************************************)
(* Properties.                                                             *)
(***************************************************************************)
RECURSIVE AmountSum(_)
AmountSum(items) ==
  IF items = <<>> THEN Zero ELSE Add(Head(items).amount, AmountSum(Tail(items)))

RECURSIVE PercentSum(_)
PercentSum(goals) ==
  IF goals = <<>> THEN Zero ELSE Add(Head(goals).target_percent, PercentSum(Tail(goals)))

FixedTotal(data) == AmountSum(data.fixedExpenses)
Remaining(data) == Sub(data.income, FixedTotal(data))
GoalTotal(data) == Mul(Div(PercentSum(data.goals), Num(100)), data.income)

IsExpensesExceedIncome(r) ==
  /\ ~r.success
  /\ r.message = "Your fixed expenses exceed your income. Please adjust your expenses or increase your income."

IsGoalsExceedRemaining(r) ==
  /\ ~r.success
  /\ r.message = "Your financial goals cannot be met with your current income and fixed expenses."

IsRecommendation(v) ==
  /\ v.type = "object"
  /\ {"budgetPlan", "insights", "warnings", "summary"} \subseteq DOMAIN v.members
  /\ v.members.budgetPlan.type = "array"
  /\ v.members.insights.type = "array"
  /\ v.members.warnings.type = "array"
  /\ v.members.summary.type = "string"

\* C1: whenever the submitted fixed expenses total more than the income, the
\* stored result is the expenses-exceed-income failure, with remainingIncome
\* reported as 0 and no allocations.
C1_ExpensesExceedIncome ==
  (submitted # NULL /\ Gt(FixedTotal(submitted), submitted.income)) =>
    /\ IsExpensesExceedIncome(budgetResults)
    /\ budgetResults.remainingIncome = Zero
    /\ budgetResults.allocations = <<>>

C1_Witness ==
  /\ submitted # NULL
  /\ Gt(FixedTotal(submitted), submitted.income)
  /\ budgetResults.totalFixedExpenses = Num(36)
  /\ budgetResults.income = Num(30)

\* C2 as claimed: whenever the goals' total amount exceeds income minus
\* fixed expenses, the result is the goals-exceed-remaining failure with a
\* positive shortfall.
C2_Original ==
  (submitted # NULL /\ Gt(GoalTotal(submitted), Remaining(submitted))) =>
    /\ IsGoalsExceedRemaining(budgetResults)
    /\ Gt(Sub(budgetResults.totalGoalAmount, budgetResults.remainingIncome), Zero)

\* C2 amended: the same, for the inputs whose fixed expenses do not exceed
\* the income.
C2_GoalsExceedRemaining ==
  (/\ submitted # NULL
   /\ ~Gt(FixedTotal(submitted), submitted.income)
   /\ Gt(GoalTotal(submitted), Remaining(submitted))) =>
    /\ IsGoalsExceedRemaining(budgetResults)
    /\ Gt(Sub(budgetResults.totalGoalAmount, budgetResults.remainingIncome), Zero)

C2_Witness ==
  /\ submitted # NULL
  /\ ~Gt(FixedTotal(submitted), submitted.income)
  /\ Gt(GoalTotal(submitted), Remaining(submitted))
  /\ IsGoalsExceedRemaining(budgetResults)

\* C3: in a feasible result the amounts of all allocations add up to
\* remainingIncome, which is income minus the fixed expenses; with no goals
\* the single allocation is the whole of remainingIncome.
C3_AllocationsSumToRemaining ==
  (budgetResults # NULL /\ budgetResults.success) =>
    /\ budgetResults.remainingIncome = Remaining(submitted)
    /\ AmountSum(budgetResults.allocations) = budgetResults.remainingIncome
    /\ submitted.goals = <<>> =>
         /\ Len(budgetResults.allocations) = 1
         /\ budgetResults.allocations[1].amount = budgetResults.remainingIncome

C3_Witness ==
  /\ budgetResults # NULL
  /\ budgetResults.success
  /\ Len(budgetResults.allocations) = 3
  /\ Gt(budgetResults.totalGoalAmount, Zero)
  /\ Gt(budgetResults.discretionaryAmount, Zero)

\* C4: in a feasible result the last allocation is "Discretionary Spending"
\* and discretionaryAmount = remainingIncome - totalGoalAmount is not negative.
C4_DiscretionaryLast ==
  (budgetResults # NULL /\ budgetResults.success) =>
    /\ budgetResults.allocations # <<>>
    /\ budgetResults.allocations[Len(budgetResults.allocations)].category = "Discretionary Spending"
    /\ budgetResults.discretionaryAmount =
         Sub(budgetResults.remainingIncome, budgetResults.totalGoalAmount)
    /\ ~Lt(budgetResults.discretionaryAmount, Zero)

C4_Witness ==
  /\ budgetResults # NULL
  /\ budgetResults.success
  /\ Gt(budgetResults.totalGoalAmount, Zero)
  /\ budgetResults.discretionaryAmount = Zero

\* C5: however generateText settles, the promise of
\* getAIBudgetRecommendations is fulfilled, never rejected, with an object
\* that has array budgetPlan, insights and warnings and a string summary.
C5_NeverFailsOutward ==
  svc.phase = "settled" =>
    /\ svc.settlement.fulfilled
    /\ IsRecommendation(svc.settlement.value)

C5_Witness ==
  /\ svc.phase = "settled"
  /\ svc.outcome = TextOutcome(<<"{", "E", "}">>)
  /\ Lt(Remaining(svc.budgetData), Zero)
  /\ svc.settlement.fulfilled

\* C6: when generateText throws an Error with a non-empty message, the
\* returned warnings contain that message, and with remainingIncome > 0 the
\* budgetPlan is two entries of 20% and 80% of remainingIncome.
C6_ErrorMessageAndSplit ==
  (svc.phase = "settled" /\ svc.outcome.kind = "error" /\ svc.outcome.message # "") =>
    /\ svc.settlement.fulfilled
    /\ LET rec == svc.settlement.value.members
           rem == Remaining(svc.budgetData)
       IN  /\ rec.warnings.items # <<>>
           /\ \E i \in DOMAIN rec.warnings.items :
                rec.warnings.items[i] = Str(svc.outcome.message)
           /\ Gt(rem, Zero) =>
                /\ Len(rec.budgetPlan.items) = 2
                /\ rec.budgetPlan.items[1].members.amount = NumV(Rat(rem.n, 5 * rem.d))
                /\ rec.budgetPlan.items[2].members.amount = NumV(Rat(4 * rem.n, 5 * rem.d))

C6_Witness ==
  /\ svc.phase = "settled"
  /\ svc.outcome = ErrorOutcome("Request timed out")
  /\ Gt(Remaining(svc.budgetData), Zero)
  /\ Len(svc.settlement.value.members.budgetPlan.items) = 2

\* the error raised for a response text whose cleaned form does not parse,
\* or parses to a value that fails validateAIRecommendation
MalformedMessage(text) ==
  LET parsed == JSONparse(cleanAndValidateJSON(text))
  IN  IF ~parsed.ok THEN parsed.message ELSE "Invalid recommendation structure"

Malformed(text) ==
  LET parsed == JSONparse(cleanAndValidateJSON(text))
  IN  ~parsed.ok \/ ~validateAIRecommendation(parsed.value)

\* C7: for a response whose cleaned text does not parse, or parses to a
\* value that fails validation, the result is exactly the fallback for the
\* raised error's message: the plan, insights and summary of a call failure
\* on the same input, and the same warnings after the first.
C7_MalformedIsFallback ==
  (svc.phase = "settled" /\ svc.outcome.kind = "text" /\ Malformed(svc.outcome.text)) =>
    LET failure == createFallbackRecommendation(svc.budgetData, Str("Request timed out")).members
    IN  /\ svc.settlement =
             Fulfilled(createFallbackRecommendation(svc.budgetData,
                                                    Str(MalformedMessage(svc.outcome.text))))
        /\ svc.settlement.value.members.budgetPlan = failure.budgetPlan
        /\ svc.settlement.value.members.insights = failure.insights
        /\ svc.settlement.value.members.summary = failure.summary
        /\ Tail(svc.settlement.value.members.warnings.items) = Tail(failure.warnings.items)
        /\ Head(svc.settlement.value.members.warnings.items) = Str(MalformedMessage(svc.outcome.text))

C7_Witness ==
  /\ svc.phase = "settled"
  /\ svc.outcome.kind = "text"
  /\ ~JSONparse(cleanAndValidateJSON(svc.outcome.text)).ok
  /\ Gt(Remaining(svc.budgetData), Zero)
  /\ svc.settlement.fulfilled

\* C8: the recommendation held in aiRecommendation never comes from a call
\* that a later submission has superseded.
C8_NoStaleRecommendation ==
  aiFrom # NULL => ~aiFrom.superseded

C8_Witness ==
  /\ aiFrom # NULL
  /\ aiFrom.phase = "settled"
  /\ aiFrom.data = submitted
  /\ aiRecommendation = aiFrom.settlement.value
  /\ ~isLoading

\* C9 as claimed: once a feasible submission has finished loading,
\* aiRecommendation is a complete recommendation.
C9_CompleteRecommendation ==
  (budgetResults # NULL /\ budgetResults.success /\ ~isLoading) =>
    /\ aiRecommendation # NULL
    /\ IsRecommendation(aiRecommendation)

\* C10: while a recommendation call is pending the feasible result of its
\* submission is already stored, and no step taken while loading (the call
\* settling, resolving or rejecting) changes budgetResults.
C10_AllocationNotBlocked ==
  /\ [](\A c \in calls :
          ~c.superseded =>
            /\ budgetResults # NULL
            /\ budgetResults.success
            /\ budgetResults.income = c.data.income
            /\ budgetResults.fixedExpenses = c.data.fixedExpenses
            /\ Len(budgetResults.allocations) = Len(c.data.goals) + 1)
  /\ [][isLoading => budgetResults' = budgetResults]_vars

C10_Witness ==
  /\ aiFrom # NULL
  /\ aiFrom.phase = "generating"
  /\ ~isLoading
  /\ budgetResults.success
  /\ aiRecommendation = ClientFallback

\* C11 as claimed: every submission, feasible or not, calls
\* getAIBudgetRecommendations.
C11_Original ==
  submitted # NULL => invoked

\* C11 amended: a submission calls getAIBudgetRecommendations exactly when
\* its allocation is feasible; the two infeasible paths return without it.
C11_InvokedIffFeasible ==
  submitted # NULL =>
    /\ invoked <=> budgetResults.success
    /\ ~budgetResults.success => (calls = {} /\ aiRecommendation = NULL /\ ~isLoading)

C11_Witness ==
  /\ submitted # NULL
  /\ IsGoalsExceedRemaining(budgetResults)
  /\ ~invoked
  /\ calls = {}

\* the invocation ended in the catch block
ServiceFellBack ==
  /\ svc.phase = "settled"
  /\ svc.outcome.kind = "text" => Malformed(svc.outcome.text) \/ svc.outcome.text = <<"{", "D", "}">>

C13_FallbackPlan ==
  ServiceFellBack =>
    /\ svc.settlement.fulfilled
    /\ IsRecommendation(svc.settlement.value)
    /\ LET plan == svc.settlement.value.members.budgetPlan.items
           rem == Remaining(svc.budgetData)
           income == svc.budgetData.income
       IN  IF Gt(rem, Zero)
             THEN /\ Len(plan) = 2
                  /\ plan[1].members.category = Str("Emergency Savings")
                  /\ plan[2].members.category = Str("Discretionary")
                  /\ plan[1].members.amount = NumV(Rat(rem.n, 5 * rem.d))
                  /\ plan[2].members.amount = NumV(Rat(4 * rem.n, 5 * rem.d))
                  /\ \A i \in 1..2 :
                       plan[i].members.percent.num =
                         Rat(100 * plan[i].members.amount.num.n * income.d,
                             plan[i].members.amount.num.d * income.n)
                  /\ Add(plan[1].members.amount.num, plan[2].members.amount.num) = rem
             ELSE plan = <<>>

C13_Witness ==
  /\ ServiceFellBack
  /\ Remaining(svc.budgetData) = Zero
  /\ svc.settlement.value.members.budgetPlan.items = <<>>

\* C14: in a fallback the warnings start with the captured message (the
\* generic string when it is empty); the insufficiency warning and the
\* deficit summary are there exactly when remainingIncome < 0; the third
\* insight is the emergency-fund tip when remainingIncome > 0, else the
\* reduce-expenses tip.
C14_FallbackTexts ==
  ServiceFellBack =>
    LET rec == svc.settlement.value.members
        rem == Remaining(svc.budgetData)
        message == IF svc.outcome.kind = "error" THEN svc.outcome.message
                   ELSE IF svc.outcome.kind = "thrown" THEN "Unknown error occurred"
                   ELSE IF svc.outcome.text = <<"{", "D", "}">> THEN TypeErrorMessage
                   ELSE MalformedMessage(svc.outcome.text)
        insufficient == Str("Income insufficient to cover fixed expenses")
    IN  /\ rec.warnings.items[1] =
             (IF message = "" THEN Str("AI service temporarily unavailable") ELSE Str(message))
        /\ (\E i \in DOMAIN rec.warnings.items : rec.warnings.items[i] = insufficient)
             <=> Lt(rem, Zero)
        /\ rec.summary = (IF Lt(rem, Zero)
                            THEN Str("Budget shows deficit - immediate action needed")
                            ELSE Str("Basic budget allocation provided - AI analysis pending"))
        /\ rec.insights.items[3] = (IF Gt(rem, Zero)
                                      THEN Str("Focus on building an emergency fund")
                                      ELSE Str("Consider reducing expenses"))

C14_Witness ==
  /\ ServiceFellBack
  /\ svc.outcome = ErrorOutcome("")
  /\ Lt(Remaining(svc.budgetData), Zero)
  /\ Len(svc.settlement.value.members.warnings.items) = 2

PercentOfIncome(amount, income) == Rat(100 * amount.n * income.d, amount.d * income.n)

\* C16: in a feasible result every entry of allocations, the goals' and the
\* discretionary one, has percent = amount / income * 100.
C16_PercentOfIncome ==
  (submitted # NULL /\ budgetResults.success) =>
    \A i \in DOMAIN budgetResults.allocations :
      budgetResults.allocations[i].percent =
        PercentOfIncome(budgetResults.allocations[i].amount, submitted.income)

C16_Witness ==
  /\ submitted # NULL
  /\ budgetResults.success
  /\ Len(budgetResults.allocations) = 3
  /\ budgetResults.allocations[1].percent = Num(60)
  /\ budgetResults.allocations[3].percent = Num(40)

\* C17: a feasible result has one entry per goal, in the order of the goals,
\* with the goal's category and amount target_percent / 100 * income, a goal
\* of 0 percent included, and then the one "Discretionary Spending" entry.
C17_OneEntryPerGoalThenDiscretionary ==
  (submitted # NULL /\ budgetResults.success) =>
    LET goals == submitted.goals
        allocations == budgetResults.allocations
    IN  /\ Len(allocations) = Len(goals) + 1
        /\ \A i \in DOMAIN goals :
             /\ allocations[i].category = goals[i].category
             /\ allocations[i].amount =
                  Rat(goals[i].target_percent.n * submitted.income.n,
                      100 * goals[i].target_percent.d * submitted.income.d)
        /\ {i \in DOMAIN allocations : allocations[i].category = "Discretionary Spending"}
             = {Len(goals) + 1}

C17_Witness ==
  /\ submitted # NULL
  /\ budgetResults.success
  /\ Len(submitted.goals) = 2
  /\ submitted.goals[1].target_percent = Zero
  /\ budgetResults.allocations[1].amount = Zero
  /\ Len(budgetResults.allocations) = 3

\* C18: the result of the goals-exceed-remaining path has the goals' entries
\* in goalAllocations, one per goal in order, their total amount, the plain
\* sum of the target percents (above 100 when they add up to more), the
\* remaining income income - totalFixedExpenses as it is, and no
\* allocations; totalGoalAmount - remainingIncome is the positive shortfall.
C18_GoalsExceedRemainingDetails ==
  (submitted # NULL /\ IsGoalsExceedRemaining(budgetResults)) =>
    LET goals == submitted.goals
        r == budgetResults
    IN  /\ Len(r.goalAllocations) = Len(goals)
        /\ \A i \in DOMAIN goals :
             /\ r.goalAllocations[i].category = goals[i].category
             /\ r.goalAllocations[i].amount =
                  Rat(goals[i].target_percent.n * submitted.income.n,
                      100 * goals[i].target_percent.d * submitted.income.d)
        /\ r.totalGoalAmount = AmountSum(r.goalAllocations)
        /\ r.totalGoalPercent = PercentSum(goals)
        /\ r.remainingIncome = Remaining(submitted)
        /\ r.totalFixedExpenses = FixedTotal(submitted)
        /\ r.allocations = <<>>
        /\ Gt(Sub(r.totalGoalAmount, r.remainingIncome), Zero)

C18_Witness ==
  /\ submitted # NULL
  /\ IsGoalsExceedRemaining(budgetResults)
  /\ budgetResults.totalGoalPercent = Num(120)
  /\ Len(budgetResults.goalAllocations) = 2

\* C19: scenario A, the default values of the form: a feasible result with
\* totalFixedExpenses 1530, remainingIncome 3470, goal amounts 750, 500 and
\* 400 (1650 in all), discretionaryAmount 1820 and discretionaryPercent 36.4.
C19_ScenarioA ==
  submitted = defaultValues =>
    /\ budgetResults.success
    /\ budgetResults.totalFixedExpenses = Num(1530)
    /\ budgetResults.remainingIncome = Num(3470)
    /\ Len(budgetResults.allocations) = 4
    /\ budgetResults.allocations[1].amount = Num(750)
    /\ budgetResults.allocations[2].amount = Num(500)
    /\ budgetResults.allocations[3].amount = Num(400)
    /\ budgetResults.totalGoalAmount = Num(1650)
    /\ budgetResults.discretionaryAmount = Num(1820)
    /\ budgetResults.discretionaryPercent = Rat(364, 10)

C19_Witness ==
  /\ submitted = defaultValues
  /\ budgetResults.income = Num(5000)
  /\ budgetResults.allocations[4].category = "Discretionary Spending"

HasFence(s) == \E i \in 1..(Len(s) - 2) : s[i] = Backtick /\ s[i + 1] = Backtick /\ s[i + 2] = Backtick

BraceThenBrace(s) == \E i, j \in 1..Len(s) : i < j /\ s[i] = "{" /\ s[j] = "}"

\* C20: for a response that has a "{" and, later, a "}", the cleaned text
\* starts with "{", ends with "}" and has no three backticks in a row.
C20_CleanedIsBracedAndUnfenced ==
  (clean.phase = "returned" /\ BraceThenBrace(clean.response)) =>
    /\ clean.cleaned # <<>>
    /\ clean.cleaned[1] = "{"
    /\ clean.cleaned[Len(clean.cleaned)] = "}"
    /\ ~HasFence(clean.cleaned)

\* an object with text before it and a fence after it
C20_Witness ==
  /\ clean.phase = "returned"
  /\ BraceThenBrace(clean.response)
  /\ HasFence(clean.response)
  /\ clean.response[1] = "x"
  /\ clean.response[Len(clean.response)] = Backtick
  /\ clean.cleaned = <<"{", "}">>

\* the response parses to a value that passes validateAIRecommendation
PassesValidation(text) ==
  LET parsed == JSONparse(cleanAndValidateJSON(text))
  IN  parsed.ok /\ validateAIRecommendation(parsed.value)

\* the value the response parses to
ParsedValue(text) == JSONparse(cleanAndValidateJSON(text)).value

\* C21: for a response that passes the structural validation, every
\* budgetPlan entry of the returned recommendation has a string category
\* ("Miscellaneous" when the model gave none), a string reasoning ("Budget
\* allocation" when the model gave none) and numbers, never NaN, as amount
\* and percent (0 when the model gave none or one that is no numeral).
C21_EntriesCoerced ==
  (svc.phase = "settled" /\ svc.outcome.kind = "text" /\ PassesValidation(svc.outcome.text)) =>
    /\ svc.settlement.fulfilled
    /\ LET plan == svc.settlement.value.members.budgetPlan.items
           given == ParsedValue(svc.outcome.text).members.budgetPlan.items
       IN  /\ \A i \in DOMAIN plan :
                /\ DOMAIN plan[i].members = {"category", "amount", "percent", "reasoning"}
                /\ plan[i].members.category.type = "string"
                /\ plan[i].members.reasoning.type = "string"
                /\ plan[i].members.amount.type = "number" /\ ~plan[i].members.amount.nan
                /\ plan[i].members.percent.type = "number" /\ ~plan[i].members.percent.nan
           /\ (\A i \in DOMAIN given : given[i].type = "object") =>
                \A i \in DOMAIN given :
                  /\ Member(given[i], "category") = Undefined
                       => plan[i].members.category = Str("Miscellaneous")
                  /\ Member(given[i], "reasoning") = Undefined
                       => plan[i].members.reasoning = Str("Budget allocation")
                  /\ \A f \in {"amount", "percent"} :
                       (\/ Member(given[i], f) = Undefined
                        \/ Member(given[i], f).type = "string" /\ Member(given[i], f).str = "twenty")
                         => plan[i].members[f] = NumV(Zero)

C21_Witness ==
  /\ svc.phase = "settled"
  /\ svc.outcome = TextOutcome(<<"x", " ", "{", "B", "}", " ", "x">>)
  /\ Len(svc.settlement.value.members.budgetPlan.items) = 3
  /\ svc.settlement.value.members.budgetPlan.items[1] =
       PlanEntry(Str("Miscellaneous"), NumV(Num(600)), NumV(Zero), Str("Budget allocation"))
  /\ svc.settlement.value.members.budgetPlan.items[3].members.percent = NumV(Zero)

\* C22: the prompt tells the model that the allocations must total income
\* minus the sum of the fixed-expense amounts, the figure it also gives as
\* available for allocation, and it is made of the income, the expense lines
\* and the goal lines of the input and of figures computed from them.
C22_PromptTotalsRemaining ==
  svc.phase \in {"generating", "settled"} =>
    LET data == svc.budgetData
        ratio == Rat(100 * FixedTotal(data).n * data.income.d, FixedTotal(data).d * data.income.n)
    IN  /\ svc.prompt.allocationsMustTotal = Sub(data.income, AmountSum(data.fixedExpenses))
        /\ svc.prompt.availableForAllocation = svc.prompt.allocationsMustTotal
        /\ svc.prompt.monthlyIncome = data.income
        /\ svc.prompt.fixedExpenses = AmountSum(data.fixedExpenses)
        /\ svc.prompt.expenseLines =
             [i \in DOMAIN data.fixedExpenses |->
                <<data.fixedExpenses[i].category, data.fixedExpenses[i].amount>>]
        /\ svc.prompt.goalLines =
             [i \in DOMAIN data.goals |-> <<data.goals[i].category, data.goals[i].target_percent>>]
        /\ svc.prompt.fixedExpensePercent = toFixed(ratio, 1)
        /\ svc.prompt.insightExamplePercent = toFixed(ratio, 1)
        /\ svc.prompt.insightExampleLimits = (IF Gt(ratio, Num(50)) THEN "above" ELSE "within")
        /\ svc.prompt.warningExample =
             (IF Lt(svc.prompt.allocationsMustTotal, Zero)
                THEN "Your fixed expenses exceed your income"
                ELSE "No major warnings detected")

C22_Witness ==
  /\ svc.phase = "generating"
  /\ Len(svc.budgetData.fixedExpenses) = 2
  /\ svc.prompt.allocationsMustTotal = Num(-6)
  /\ svc.prompt.monthlyIncome = Num(30)

\* C23: fixed expenses that add up to exactly the income are not reported
\* as exceeding it, and with every goal at 0 percent the result is feasible
\* with discretionaryAmount 0; goals that add up to exactly the remaining
\* income give a feasible result whose "Discretionary Spending" entry has
\* amount 0 and percent 0.
C23_BoundariesInclusive ==
  submitted # NULL =>
    LET r == budgetResults
    IN  /\ FixedTotal(submitted) = submitted.income =>
             /\ ~IsExpensesExceedIncome(r)
             /\ (\A i \in DOMAIN submitted.goals : submitted.goals[i].target_percent = Zero) =>
                  (r.success /\ r.discretionaryAmount = Zero)
        /\ GoalTotal(submitted) = Remaining(submitted) =>
             /\ r.success
             /\ r.allocations[Len(r.allocations)] =
                  [category |-> "Discretionary Spending", amount |-> Zero, percent |-> Zero]

C23_Witness ==
  /\ submitted # NULL
  /\ GoalTotal(submitted) = Remaining(submitted)
  /\ Remaining(submitted) = Num(18)
  /\ budgetResults.success
  /\ budgetResults.discretionaryAmount = Zero

\* C24: a submission that ended on an infeasible path has isLoading false
\* and no call in flight, and a submission that is loading comes to
\* isLoading = FALSE once its recommendation call has resolved or rejected.
C24_LoadingEnds ==
  /\ []((submitted # NULL /\ ~budgetResults.success) => (~isLoading /\ calls = {}))
  /\ [](isLoading => calls # {})
  /\ (isLoading ~> ~isLoading)

\* a feasible submission whose call has completed
C24_Witness ==
  /\ submitted # NULL
  /\ budgetResults.success
  /\ invoked
  /\ calls = {}
  /\ ~isLoading

\* C25: at most one recommendation call is in flight; it is the call of the
\* latest submission, and isLoading is true for as long as it is in flight,
\* so that no submission starts meanwhile.
C25_OneCallInFlight ==
  /\ Cardinality(calls) <= 1
  /\ calls # {} => isLoading
  /\ isLoading => ~SubmitEnabled
  /\ \A c \in calls : c.data = submitted /\ ~c.superseded

\* the call has settled on the server and its result is on its way
C25_Witness ==
  /\ isLoading
  /\ Cardinality(calls) = 1
  /\ \E c \in calls : c.phase = "settled" /\ c.data = submitted

\* C26: after an infeasible submission aiRecommendation is null, and a
\* recommendation that is stored was set by the call of the latest
\* submission, whose feasible result is the one in budgetResults.
C26_RecommendationBelongsToResult ==
  /\ (submitted # NULL /\ ~budgetResults.success) => aiRecommendation = NULL
  /\ aiRecommendation # NULL =>
       /\ budgetResults # NULL
       /\ budgetResults.success
       /\ aiFrom # NULL
       /\ aiFrom.data = submitted
       /\ budgetResults.income = aiFrom.data.income
       /\ budgetResults.fixedExpenses = aiFrom.data.fixedExpenses
       /\ budgetResults.totalGoalPercent = PercentSum(aiFrom.data.goals)
       /\ (aiRecommendation # ClientFallback /\ aiFrom.phase = "settled") =>
            aiRecommendation = aiFrom.settlement.value

\* the second submission of an input, with the recommendation of its call
C26_Witness ==
  /\ resubmitted
  /\ budgetResults.success
  /\ aiRecommendation # NULL
  /\ aiRecommendation # ClientFallback
  /\ aiFrom.data = submitted
  /\ ~isLoading

\* the input with the two optional fields as onSubmit computes them
SameCoreInput(budgetData) ==
  [income |-> budgetData.income,
   fixedExpenses |-> budgetData.fixedExpenses,
   goals |-> budgetData.goals,
   remainingIncome |-> Remaining(budgetData),
   totalFixedExpenses |-> FixedTotal(budgetData)]

\* C27: an invocation builds the prompt and, on failure, the fallback that
\* the invocation with the same income, fixedExpenses and goals and other
\* remainingIncome and totalFixedExpenses fields builds; the figures come
\* from income minus the sum of the fixed expenses.
C27_OptionalFieldsIgnored ==
  svc.phase = "settled" =>
    /\ svc.prompt = createBudgetAnalysisPrompt(SameCoreInput(svc.budgetData))
    /\ svc.prompt.availableForAllocation = Remaining(svc.budgetData)
    /\ ServiceFellBack =>
         /\ svc.settlement =
              getAIBudgetRecommendations(SameCoreInput(svc.budgetData), svc.outcome)
         /\ svc.settlement.value.members.insights.items[2] =
              Template("Available after fixed expenses: $%",
                       <<toFixed(Remaining(svc.budgetData), 2)>>)
         /\ (svc.settlement.value.members.budgetPlan.items # <<>>)
              <=> Gt(Remaining(svc.budgetData), Zero)

C27_Witness ==
  /\ svc.phase = "settled"
  /\ ServiceFellBack
  /\ svc.budgetData.remainingIncome = Num(1000)
  /\ Remaining(svc.budgetData) = Num(-6)
  /\ svc.settlement.value.members.budgetPlan.items = <<>>

\* C28: on every failure path the first warning is a string that is not
\* empty: the message of the Error raised when it has one, "Unknown error
\* occurred" when the value raised is not an Error, and "AI service
\* temporarily unavailable" when the Error's message is empty.
C28_FirstWarningNotEmpty ==
  ServiceFellBack =>
    LET first == svc.settlement.value.members.warnings.items[1]
    IN  /\ first.type = "string"
        /\ first # Str("")
        /\ svc.outcome.kind = "thrown" => first = Str("Unknown error occurred")
        /\ (svc.outcome.kind = "error" /\ svc.outcome.message # "")
             => first = Str(svc.outcome.message)
        /\ (svc.outcome.kind = "error" /\ svc.outcome.message = "")
             => first = Str("AI service temporarily unavailable")
        /\ svc.outcome.kind = "text"
             => first \in {Str(SyntaxErrorMessage), Str("Invalid recommendation structure"),
                           Str(TypeErrorMessage)}

C28_Witness ==
  /\ ServiceFellBack
  /\ svc.outcome.kind = "error"
  /\ svc.outcome.message = ""
  /\ ~Lt(Remaining(svc.budgetData), Zero)
  /\ svc.settlement.value.members.warnings.items = <<Str("AI service temporarily unavailable")>>

\* C29 as claimed: for a response that parses and passes the structural
\* validation, the recommendation returned has the model's insights,
\* warnings and summary, and a budgetPlan with one entry for each entry of
\* the model's budgetPlan, in the same order.
C29_ValidResponseKept ==
  (svc.phase = "settled" /\ svc.outcome.kind = "text" /\ PassesValidation(svc.outcome.text)) =>
    LET given == ParsedValue(svc.outcome.text).members
        rec == svc.settlement.value.members
    IN  /\ svc.settlement.fulfilled
        /\ rec.insights = given.insights
        /\ rec.warnings = given.warnings
        /\ rec.summary = given.summary
        /\ Len(rec.budgetPlan.items) = Len(given.budgetPlan.items)
        /\ \A i \in DOMAIN given.budgetPlan.items :
             LET category == Member(given.budgetPlan.items[i], "category")
             IN  (category.type = "string" /\ category # Str(""))
                   => rec.budgetPlan.items[i].members.category = category

\* the same, for the responses whose budgetPlan has no null entry
C29_ValidResponseKeptUnlessNullEntry ==
  (/\ svc.phase = "settled"
   /\ svc.outcome.kind = "text"
   /\ PassesValidation(svc.outcome.text)
   /\ \A i \in DOMAIN ParsedValue(svc.outcome.text).members.budgetPlan.items :
        ParsedValue(svc.outcome.text).members.budgetPlan.items[i] # JNull)
    => C29_ValidResponseKept

\* s[i..j] is an object text (it starts with "{", ends with "}" and has no
\* fence) standing in s after a prefix without "{" and before a suffix
\* without "}"
Embedded(s, i, j) ==
  /\ i < j
  /\ s[i] = "{"
  /\ s[j] = "}"
  /\ ~HasFence(SubSeq(s, i, j))
  /\ \A k \in 1..(i - 1) : s[k] # "{"
  /\ \A k \in (j + 1)..Len(s) : s[k] # "}"

\* C30: cleaning a text made of a prefix without "{", an object text J and
\* a suffix without "}" gives exactly J (so does cleaning J alone, the case
\* of the empty prefix and suffix), and cleaning the result again gives the
\* same text.
C30_RecoversEmbeddedObject ==
  clean.phase \in {"returned", "recleaned"} =>
    \A i, j \in 1..Len(clean.response) :
      Embedded(clean.response, i, j) =>
        /\ clean.cleaned = SubSeq(clean.response, i, j)
        /\ clean.phase = "recleaned" => clean.again = clean.cleaned

C30_Witness ==
  /\ clean.phase = "recleaned"
  /\ clean.response = Fence \o <<"j", "s", "o", "n", "{", "}">> \o Fence
  /\ clean.cleaned = <<"{", "}">>
  /\ clean.again = <<"{", "}">>

====
